---- MODULE Spec2Model ----
(***************************************************************************)
(* Model of the YjsPad collaboration client (src/src/App.tsx, with the     *)
(* older variant in src/unnamed/part_003) and of the EditorPage glue that  *)
(* drives it (src/unnamed/part_000).                                       *)
(*                                                                         *)
(* Five specifications share the module:                                   *)
(*   Spec        - two YjsPad sessions reconcile the initial content of    *)
(*                 one document: transport status, handleInitialContent    *)
(*                 and the exchange of Yjs updates through the room.       *)
(*   SpecLang    - the same two sessions reconcile and set the language.   *)
(*   SpecSession - the whole life of one session, from its construction    *)
(*                 to dispose() or the unload of the page.                 *)
(*   SpecUsers   - one session's presence tracker (updateUsers and         *)
(*                 usersEqual) driven by awareness changes.                *)
(*   SpecCRDT    - two reconciled sessions exchange concurrent insertions  *)
(*                 and language replacements.                              *)
(***************************************************************************)
EXTENDS Integers, Sequences, FiniteSets, TLC

VARIABLES
    doc,                    \* per pad: the Y.Doc replica (content, language, deleted, pending)
    room,                   \* the updates the server room holds
    outbox,                 \* per pad: local updates made while the socket was down
    wsconnected,            \* per pad: provider.wsconnected
    status,                 \* per pad: the page's connection state (onConnected/...)
    roomOpt,                \* per pad: options.checkRoomExists ("none" | "false" | "true")
    initialContentHandled,  \* per pad: the latch of handleInitialContent
    pc,                     \* per pad: where handleInitialContent is suspended
    waitTime,               \* per pad: waitForSync's waitTime
    fetched,                \* per pad: the value the pending onInitialContentNeeded() resolves to
    reentered,              \* per pad: handleInitialContent was called with the latch set
    fetchCalls,             \* per pad: calls of onInitialContentNeeded so far
    seedInserts,            \* per pad: executions of yText.insert(0, initialData.content)
    raced,                  \* per pad: remote content arrived while the fetch was pending
    editorLang,             \* per pad: editor.getModel().getLanguageId()
    langNote,               \* per pad: last value passed to onChangeLanguage (<<>> = none)
    localState,             \* per pad: awareness.getLocalState()
    life,                   \* per pad: "live" | "disposed" | "unloaded"
    teardown,               \* per pad: log of presence and socket steps, in execution order
    edits,                  \* user keystrokes so far (all pads)
    langSets,               \* user language picks so far (all pads)
    notified,               \* per pad: the last handler called onChangeLanguage
    called,                 \* the last call of a public method: pad, method, argument, result
    states,                 \* presence: awareness.getStates(), clientId -> state
    order,                  \* presence: the Map's enumeration order
    users,                  \* presence: this.users
    published,              \* presence: the last updateUsers() called onChangeUsers
    page                    \* EditorPage: its state, yjspad.current and the pads it made

padVars == <<doc, room, outbox, wsconnected, status, roomOpt, initialContentHandled,
             pc, waitTime, fetched, reentered, fetchCalls, seedInserts, raced,
             editorLang, langNote, localState, life, teardown, edits, langSets,
             notified, called>>
userVars == <<states, order, users, published>>
pageVars == <<page>>
vars == <<padVars, userVars, pageVars>>

(***************************************************************************)
(* Bounds of the model.                                                    *)
(***************************************************************************)
MaxEdits == 1
MaxPads == 3                        \* YjsPads one editor page constructs
MaxLangSets == 1
MaxCursor == 1
MaxOps == 2

Pads == {1, 2}

(***************************************************************************)
(* The Yjs replica.  Every insertion the program makes is at index 0, so   *)
(* an item has no left origin; its right origin is the first item of the   *)
(* list at the time of the insertion.                                      *)
(***************************************************************************)
NoId == <<0, 0>>

ItemId(it) == <<it.client, it.clock>>

EmptyDoc == [content |-> <<>>, language |-> <<>>, deleted |-> {}, pending |-> {}]

TypeSeq(d, type) == IF type = "content" THEN d.content ELSE d.language

IntegratedIds(d) ==
    {ItemId(d.content[i]) : i \in DOMAIN d.content}
        \cup {ItemId(d.language[i]) : i \in DOMAIN d.language}

\* the state vector entry of a client: the next clock expected from it
NextClock(d, c) == Cardinality({id \in IntegratedIds(d) : id[1] = c})

RECURSIVE VisibleToks(_, _)
VisibleToks(seq, deleted) ==
    IF seq = <<>> THEN <<>>
    ELSE (IF ItemId(Head(seq)) \in deleted THEN <<>> ELSE <<Head(seq).tok>>)
             \o VisibleToks(Tail(seq), deleted)

\* Y.Text.toString(): the text as the sequence of the visible items' strings
getText(d) == VisibleToks(d.content, d.deleted)
getLanguage(d) == VisibleToks(d.language, d.deleted)

IndexOfId(seq, id) ==
    IF \E i \in DOMAIN seq : ItemId(seq[i]) = id
    THEN CHOOSE i \in DOMAIN seq : ItemId(seq[i]) = id
    ELSE Len(seq) + 1

\* Item.integrate for an item without left origin: scan the conflicting items
\* from the start of the list up to the right origin; an item of a smaller
\* client stays to the left, an item with the same right origin stops the scan.
RECURSIVE ScanLeft(_, _, _, _, _)
ScanLeft(seq, it, o, stop, left) ==
    IF o >= stop THEN left
    ELSE IF seq[o].client < it.client THEN ScanLeft(seq, it, o + 1, stop, o)
    ELSE IF seq[o].ror = it.ror THEN left
    ELSE ScanLeft(seq, it, o + 1, stop, left)

InsertAfter(seq, left, it) ==
    SubSeq(seq, 1, left) \o <<it>> \o SubSeq(seq, left + 1, Len(seq))

IntegrateAtEnd(seq, it) == Append(seq, it)

Integrate(seq, it) ==
    InsertAfter(seq, ScanLeft(seq, it, 1, IndexOfId(seq, it.ror), 0), it)

IntegrateInto(d, u) ==
    IF u.type = "content"
    THEN [d EXCEPT !.content = Integrate(d.content, u.item)]
    ELSE [d EXCEPT !.language = Integrate(d.language, u.item)]

\* an update can be integrated once its causal predecessors are
Ready(d, u) ==
    /\ u.item.clock = NextClock(d, u.item.client)
    /\ u.item.ror = NoId \/ u.item.ror \in IntegratedIds(d)

RECURSIVE Drain(_)
Drain(d) ==
    IF \E u \in d.pending : Ready(d, u)
    THEN LET u == CHOOSE x \in d.pending : Ready(d, x)
         IN Drain(IntegrateInto([d EXCEPT !.pending = @ \ {u}], u))
    ELSE d

\* Y.applyUpdate: the delete set is recorded, the struct waits for its predecessors
applyUpdate(d, u) ==
    Drain([d EXCEPT !.deleted = @ \cup u.dels, !.pending = @ \cup {u}])

\* the updates a replica holds (integrated or pending), by item id
Received(d) == IntegratedIds(d) \cup {ItemId(u.item) : u \in d.pending}

\* the update of a local transaction that inserts tok at index 0 of a type,
\* after deleting the ids in dels
LocalUpdate(d, p, type, tok, dels) ==
    [type |-> type,
     dels |-> dels,
     item |-> [client |-> p, clock |-> NextClock(d, p), tok |-> tok,
               ror |-> IF TypeSeq(d, type) = <<>> THEN NoId
                       ELSE ItemId(TypeSeq(d, type)[1])]]

VisibleIds(seq, deleted) ==
    {ItemId(seq[i]) : i \in DOMAIN seq} \ deleted

(***************************************************************************)
(* The inputs of the model.                                                *)
(***************************************************************************)
Languages == {"go", "rust"}         \* languages.json, as far as the model needs it
DefaultLanguage == "plaintext"
TypedText == {"R", "S"}             \* what a user types through the editor binding
TypedBy == <<"R", "S">>             \* SpecCRDT: what the user of each pad types
SnapshotText == "B"                 \* documentData.content of the backend

\* what onInitialContentNeeded() can resolve to: {content, language?}
FetchData == [content : {"", SnapshotText}, language : {"", "go"}]
SeedData == {d \in FetchData : d.language = ""}
LangData == {d \in FetchData : d.content = ""}

MaxWaitTime == 2000
PollInterval == 100

(***************************************************************************)
(* One pad's share of the state, as a record the steps of a handler are    *)
(* applied to in sequence.  out collects the updates the handler produced. *)
(***************************************************************************)
PadState(p) ==
    [doc |-> doc[p], handled |-> initialContentHandled[p], pc |-> pc[p],
     waitTime |-> waitTime[p], fetched |-> fetched[p],
     reentered |-> reentered[p], fetchCalls |-> fetchCalls[p],
     seedInserts |-> seedInserts[p], editorLang |-> editorLang[p],
     langNote |-> langNote[p], status |-> status[p],
     wsconnected |-> wsconnected[p], notified |-> FALSE, ret |-> "void", out |-> {}]

\* counters saturate so that a faulty handler cannot count without end
CounterCap == 2
Bump(n) == IF n < CounterCap THEN n + 1 ELSE n

onChangeLanguageAny(s, language) ==
    [s EXCEPT !.langNote = language,
              !.notified = TRUE,
              !.editorLang = IF language # <<>> THEN language[Len(language)] ELSE @]

\* EditorPage's onChangeLanguage: the displayed language follows known languages only
onChangeLanguage(s, language) ==
    [s EXCEPT !.langNote = language,
              !.notified = TRUE,
              !.editorLang = IF Len(language) = 1 /\ language[1] \in Languages
                             THEN language[1] ELSE @]

languageObserverAlways(s) == onChangeLanguage(s, getLanguage(s.doc))

\* the languageText observer of setupEventListeners
languageObserver(s) ==
    IF getLanguage(s.doc) # <<>> THEN onChangeLanguage(s, getLanguage(s.doc)) ELSE s

\* doc.transact(() => languageText.insert(0, tok)), observer included
insertLanguage(s, p, tok, dels) ==
    LET u == LocalUpdate(s.doc, p, "language", tok, dels)
    IN languageObserver(
           [s EXCEPT !.doc = IntegrateInto([s.doc EXCEPT !.deleted = @ \cup dels], u),
                     !.out = @ \cup {u}])

\* doc.transact(() => yText.insert(0, tok))
insertContentTwice(s, p, tok) ==
    LET u == LocalUpdate(s.doc, p, "content", tok, {})
        a == [s EXCEPT !.doc = IntegrateInto(s.doc, u), !.out = @ \cup {u}]
        v == LocalUpdate(a.doc, p, "content", tok, {})
    IN [a EXCEPT !.doc = IntegrateInto(a.doc, v), !.out = @ \cup {v}]

insertContent(s, p, tok) ==
    LET u == LocalUpdate(s.doc, p, "content", tok, {})
    IN [s EXCEPT !.doc = IntegrateInto(s.doc, u), !.out = @ \cup {u}]

languageStepNoGuard(s, p) ==
    LET t == IF s.editorLang # DefaultLanguage
             THEN insertLanguage(s, p, s.editorLang, {})
             ELSE s
    IN [t EXCEPT !.pc = "done", !.waitTime = 0]

\* handleInitialContent, the closing language step
languageStep(s, p) ==
    LET t == IF getLanguage(s.doc) = <<>> /\ s.editorLang # DefaultLanguage
             THEN insertLanguage(s, p, s.editorLang, {})
             ELSE s
    IN [t EXCEPT !.pc = "done", !.waitTime = 0]

\* EditorPage's onInitialContentNeeded, up to its return
callInitialContentNeeded(s, d) ==
    [s EXCEPT !.fetchCalls = Bump(@),
              !.fetched = d,
              !.editorLang = IF d.language \in Languages THEN d.language ELSE @]

\* handleInitialContent, the backend branch up to its await
seedBranch(s, p, d) ==
    IF getText(s.doc) = <<>>
    THEN [callInitialContentNeeded(s, d) EXCEPT !.pc = "fetch"]
    ELSE languageStep(s, p)

\* handleInitialContent, from the resolution of the fetch to the end
afterFetchNoRecheck(s, p, ok) ==
    LET d == s.fetched
        a == IF ok /\ d.content # ""
             THEN [insertContent(s, p, d.content) EXCEPT !.seedInserts = Bump(@)]
             ELSE s
        b == IF ok /\ d.language # "" /\ getLanguage(a.doc) = <<>>
             THEN insertLanguage(a, p, d.language, {})
             ELSE a
    IN languageStep(b, p)

afterFetchIgnoreFailure(s, p, ok) ==
    LET d == s.fetched
        a == IF d.content # "" /\ getText(s.doc) = <<>>
             THEN [insertContent(s, p, d.content) EXCEPT !.seedInserts = Bump(@)]
             ELSE s
        b == IF d.language # "" /\ getLanguage(a.doc) = <<>>
             THEN insertLanguage(a, p, d.language, {})
             ELSE a
    IN languageStep(b, p)

afterFetch(s, p, ok) ==
    LET d == s.fetched
        a == IF ok /\ d.content # "" /\ getText(s.doc) = <<>>
             THEN [insertContent(s, p, d.content) EXCEPT !.seedInserts = Bump(@)]
             ELSE s
        b == IF ok /\ d.language # "" /\ getLanguage(a.doc) = <<>>
             THEN insertLanguage(a, p, d.language, {})
             ELSE a
    IN languageStep(b, p)

waitCheckNoAdvance(s, p) ==
    IF getText(s.doc) # <<>> \/ s.waitTime >= MaxWaitTime
    THEN languageStep(s, p)
    ELSE [s EXCEPT !.pc = "poll"]

\* waitForSync's check closure
waitCheck(s, p) ==
    IF getText(s.doc) # <<>> \/ s.waitTime >= MaxWaitTime
    THEN languageStep(s, p)
    ELSE [s EXCEPT !.waitTime = @ + PollInterval, !.pc = "poll"]

afterRoomCheckAlwaysSeed(s, p, roomExists, d) == seedBranch(s, p, d)

afterRoomCheckAlwaysWait(s, p, roomExists, d) ==
    IF getText(s.doc) # <<>> THEN languageStep(s, p)
    ELSE waitCheck([s EXCEPT !.waitTime = 0], p)

\* handleInitialContent, from the room check's answer to the next await
afterRoomCheck(s, p, roomExists, d) ==
    IF roomExists
    THEN IF getText(s.doc) # <<>> THEN languageStep(s, p)
         ELSE waitCheck([s EXCEPT !.waitTime = 0], p)
    ELSE seedBranch(s, p, d)

\* handleInitialContent, from its entry to the first await
handleInitialContentNoLatch(s, p, d) ==
    LET e == [s EXCEPT !.reentered = s.handled, !.handled = TRUE]
    IN IF roomOpt[p] # "none"
       THEN [e EXCEPT !.pc = "check"]
       ELSE afterRoomCheck(e, p, FALSE, d)

handleInitialContent(s, p, d) ==
    LET e == [s EXCEPT !.reentered = s.handled]
    IN IF s.handled THEN e
       ELSE IF roomOpt[p] # "none"
       THEN [e EXCEPT !.handled = TRUE, !.pc = "check"]
       ELSE afterRoomCheck([e EXCEPT !.handled = TRUE], p, FALSE, d)

onStatusConnectedNoReconcile(s, p, d) ==
    LET a == [s EXCEPT !.status = "connected"]
    IN IF getLanguage(a.doc) # <<>> THEN onChangeLanguage(a, getLanguage(a.doc)) ELSE a

onStatusConnectedNoNotify(s, p, d) ==
    handleInitialContent([s EXCEPT !.status = "connected"], p, d)

\* the provider's status handler, event.status = "connected"
onStatusConnected(s, p, d) ==
    LET a == handleInitialContent([s EXCEPT !.status = "connected"], p, d)
    IN IF getLanguage(a.doc) # <<>> THEN onChangeLanguage(a, getLanguage(a.doc)) ELSE a

setLanguageNoClear(s, p, language) ==
    IF s.wsconnected
    THEN [insertLanguage(s, p, language, {}) EXCEPT !.ret = "true"]
    ELSE [s EXCEPT !.ret = "false"]

\* YjsPad.setLanguage: clear and insert in one transaction if the socket is up
setLanguage(s, p, language) ==
    IF s.wsconnected
    THEN [insertLanguage(s, p, language, VisibleIds(s.doc.language, s.doc.deleted))
             EXCEPT !.ret = "true"]
    ELSE [s EXCEPT !.ret = "false"]

(***************************************************************************)
(* Writing a pad's record back.  The provider forwards the handler's       *)
(* updates to the room while the socket is up, keeps them for the next     *)
(* sync while it is down, and forwards nothing once it is destroyed.       *)
(***************************************************************************)
Commit(p, s, connected) ==
    /\ doc' = [doc EXCEPT ![p] = s.doc]
    /\ initialContentHandled' = [initialContentHandled EXCEPT ![p] = s.handled]
    /\ pc' = [pc EXCEPT ![p] = s.pc]
    /\ waitTime' = [waitTime EXCEPT ![p] = s.waitTime]
    /\ fetched' = [fetched EXCEPT ![p] = s.fetched]
    /\ reentered' = [reentered EXCEPT ![p] = s.reentered]
    /\ fetchCalls' = [fetchCalls EXCEPT ![p] = s.fetchCalls]
    /\ seedInserts' = [seedInserts EXCEPT ![p] = s.seedInserts]
    /\ editorLang' = [editorLang EXCEPT ![p] = s.editorLang]
    /\ langNote' = [langNote EXCEPT ![p] = s.langNote]
    /\ notified' = [notified EXCEPT ![p] = s.notified]
    /\ status' = [status EXCEPT ![p] = s.status]
    /\ wsconnected' = [wsconnected EXCEPT ![p] = connected]
    /\ room' = IF connected THEN room \cup outbox[p] \cup s.out ELSE room
    /\ outbox' = [outbox EXCEPT ![p] = IF connected \/ life[p] # "live" THEN {}
                                       ELSE @ \cup s.out]

(***************************************************************************)
(* Presence: the awareness states of one session and updateUsers.          *)
(* Strings are sequences of characters, so that the identity key           *)
(* `${name}-${hue}` is the concatenation the code builds.                  *)
(***************************************************************************)
LocalClientId == 1                  \* this.awareness.clientID of the session
RemoteClientIds == {5, 7, 9}
ClientIds == {LocalClientId} \cup RemoteClientIds

Amy == <<"A", "m", "y">>
Bob == <<"B", "o", "b">>
Anonymous == <<"A", "n", "o", "n", "y", "m", "o", "u", "s">>
NoName == <<>>                      \* state.user.name missing or empty
NoHue == -1                         \* state.user.hue undefined
NoUser == [missing |-> TRUE]        \* state.user missing

\* the values of state.user the model draws from
RawUsers ==
    {[name |-> Amy, hue |-> 10], [name |-> Bob, hue |-> 200],
     [name |-> NoName, hue |-> NoHue]}

\* an awareness state: the user record and the other fields (the cursor)
NoUserState == [user |-> NoUser, cursor |-> 0]
AwarenessStates == {NoUserState} \cup [user : RawUsers, cursor : 0..MaxCursor]

\* what the local session publishes: {} at first, {user} after setInfo
LocalStates == {NoUserState, [user |-> [name |-> Amy, hue |-> 10], cursor |-> 0]}
StatesOf(c) == IF c = LocalClientId THEN LocalStates ELSE AwarenessStates

DigitChars == <<"0", "1", "2", "3", "4", "5", "6", "7", "8", "9">>

\* String(n) for a natural number
RECURSIVE NumberToString(_)
NumberToString(n) ==
    IF n < 10 THEN <<DigitChars[n + 1]>>
    ELSE NumberToString(n \div 10) \o <<DigitChars[(n % 10) + 1]>>

userInfoNoNameDefault(state) ==
    [name |-> state.user.name,
     hue |-> IF state.user.hue = NoHue THEN 0 ELSE state.user.hue]

\* { name: state.user.name || "Anonymous", hue: state.user.hue ?? 0 }
userInfoOf(state) ==
    [name |-> IF state.user.name = NoName THEN Anonymous ELSE state.user.name,
     hue |-> IF state.user.hue = NoHue THEN 0 ELSE state.user.hue]

\* `${userInfo.name}-${userInfo.hue}`
userIdentity(userInfo) == userInfo.name \o <<"-">> \o NumberToString(userInfo.hue)

MapSet(m, k, v) == [x \in DOMAIN m \cup {k} |-> IF x = k THEN v ELSE m[x]]

\* updateUsers, first step: the forEach over the states in the Map's order
RECURSIVE collectKeepFirst(_, _, _, _)
collectKeepFirst(sts, ord, i, byIdentity) ==
    IF i > Len(ord) THEN byIdentity
    ELSE LET clientId == ord[i]
             state == sts[clientId]
         IN IF state.user = NoUser \/ clientId = LocalClientId
            THEN collectKeepFirst(sts, ord, i + 1, byIdentity)
            ELSE LET userInfo == userInfoOf(state)
                     key == userIdentity(userInfo)
                 IN IF key \notin DOMAIN byIdentity
                    THEN collectKeepFirst(sts, ord, i + 1,
                             MapSet(byIdentity, key,
                                    [clientId |-> clientId, userInfo |-> userInfo]))
                    ELSE collectKeepFirst(sts, ord, i + 1, byIdentity)

RECURSIVE collectWithLocal(_, _, _, _)
collectWithLocal(sts, ord, i, byIdentity) ==
    IF i > Len(ord) THEN byIdentity
    ELSE LET clientId == ord[i]
             state == sts[clientId]
         IN IF state.user = NoUser
            THEN collectWithLocal(sts, ord, i + 1, byIdentity)
            ELSE LET userInfo == userInfoOf(state)
                     key == userIdentity(userInfo)
                 IN IF key \notin DOMAIN byIdentity
                       \/ clientId > byIdentity[key].clientId
                    THEN collectWithLocal(sts, ord, i + 1,
                             MapSet(byIdentity, key,
                                    [clientId |-> clientId, userInfo |-> userInfo]))
                    ELSE collectWithLocal(sts, ord, i + 1, byIdentity)

\* the connection publishes the name and hue of the local session
SameAsLocal(sts, state) ==
    /\ LocalClientId \in DOMAIN sts
    /\ sts[LocalClientId].user # NoUser
    /\ userInfoOf(state) = userInfoOf(sts[LocalClientId])

RECURSIVE collectByIdentity(_, _, _, _)
collectByIdentity(sts, ord, i, byIdentity) ==
    IF i > Len(ord) THEN byIdentity
    ELSE LET clientId == ord[i]
             state == sts[clientId]
         IN IF state.user = NoUser \/ SameAsLocal(sts, state)
            THEN collectByIdentity(sts, ord, i + 1, byIdentity)
            ELSE LET userInfo == userInfoOf(state)
                     key == userIdentity(userInfo)
                 IN IF key \notin DOMAIN byIdentity
                       \/ clientId > byIdentity[key].clientId
                    THEN collectByIdentity(sts, ord, i + 1,
                             MapSet(byIdentity, key,
                                    [clientId |-> clientId, userInfo |-> userInfo]))
                    ELSE collectByIdentity(sts, ord, i + 1, byIdentity)

RECURSIVE collectUsers(_, _, _, _)
collectUsers(sts, ord, i, byIdentity) ==
    IF i > Len(ord) THEN byIdentity
    ELSE LET clientId == ord[i]
             state == sts[clientId]
         IN IF state.user = NoUser \/ clientId = LocalClientId
            THEN collectUsers(sts, ord, i + 1, byIdentity)
            ELSE LET userInfo == userInfoOf(state)
                     key == userIdentity(userInfo)
                 IN IF key \notin DOMAIN byIdentity
                       \/ clientId > byIdentity[key].clientId
                    THEN collectUsers(sts, ord, i + 1,
                             MapSet(byIdentity, key,
                                    [clientId |-> clientId, userInfo |-> userInfo]))
                    ELSE collectUsers(sts, ord, i + 1, byIdentity)

newUsersKeepOld(sts, ord) ==
    LET byIdentity == collectUsers(sts, ord, 1, <<>>)
        winners == {byIdentity[k].clientId : k \in DOMAIN byIdentity}
    IN [c \in winners \cup DOMAIN users |->
           IF c \in winners THEN userInfoOf(sts[c]) ELSE users[c]]

\* updateUsers, second step: newUsers[String(clientId)] = userInfo
newUsersOf(sts, ord) ==
    LET byIdentity == collectUsers(sts, ord, 1, <<>>)
        winners == {byIdentity[k].clientId : k \in DOMAIN byIdentity}
    IN [c \in winners |-> userInfoOf(sts[c])]

usersEqualNever(a, b) == FALSE

usersEqualKeysOnly(a, b) ==
    /\ Cardinality(DOMAIN a) = Cardinality(DOMAIN b)
    /\ \A k \in DOMAIN a : k \in DOMAIN b

usersEqual(a, b) ==
    /\ Cardinality(DOMAIN a) = Cardinality(DOMAIN b)
    /\ \A k \in DOMAIN a :
          /\ k \in DOMAIN b
          /\ a[k].name = b[k].name
          /\ a[k].hue = b[k].hue

\* the awareness "change" listener: updateUsers() on the new states
updateUsers(sts, ord) ==
    LET newUsers == newUsersOf(sts, ord)
    IN IF ~usersEqual(users, newUsers)
       THEN /\ users' = newUsers
            /\ published' = TRUE
       ELSE /\ users' = users
            /\ published' = FALSE

RemoveFrom(ord, c) == SelectSeq(ord, LAMBDA x : x # c)

\* a connection sets or changes its awareness state
AwarenessSet(c, s) ==
    /\ IF c \in DOMAIN states THEN states[c] # s ELSE TRUE
    /\ states' = MapSet(states, c, s)
    /\ order' = IF c \in DOMAIN states THEN order ELSE Append(order, c)
    /\ updateUsers(states', order')
    /\ UNCHANGED <<padVars, pageVars>>

\* a connection clears its awareness state, or drops and times out
AwarenessRemove(c) ==
    /\ c \in DOMAIN states
    /\ states' = [x \in DOMAIN states \ {c} |-> states[x]]
    /\ order' = RemoveFrom(order, c)
    /\ updateUsers(states', order')
    /\ UNCHANGED <<padVars, pageVars>>

\* the Awareness constructor: setLocalState({})
UsersIdle ==
    /\ states = [c \in {LocalClientId} |-> NoUserState]
    /\ order = <<LocalClientId>>
    /\ users = <<>>
    /\ published = FALSE

NextUsers ==
    \E c \in ClientIds :
        \/ \E s \in StatesOf(c) : AwarenessSet(c, s)
        \/ AwarenessRemove(c)

(***************************************************************************)
(* EditorPage: the effect that creates the YjsPad.  React runs the cleanup *)
(* of the effect's last run, then the effect, when a dependency changed,   *)
(* and the cleanup alone at unmount.                                       *)
(***************************************************************************)
NoRouteId == ""                         \* useParams() gave no id
WellFormedIds == {"a", "b"}         \* ids the UUID pattern of the SWR key accepts
RouteIds == {NoRouteId, "zz"} \cup WellFormedIds

\* what useSWR returns: documentData and documentError; a failed
\* revalidation sets the error and keeps the data of the key
SwrStates == [data : {"undefined", "data1", "data2"},
              error : {"undefined", "404", "500"}]
NoSwr == [data |-> "undefined", error |-> "undefined"]
SwrCached == {NoSwr, [data |-> "data1", error |-> "undefined"]}
NoPad == 0                          \* yjspad.current is null, no cleanup is registered

documentExistsNoErrorCheck(swr) == swr.data # "undefined"

\* documentError?.status === 404 ? false : !!documentData
documentExists(swr) == IF swr.error = "404" THEN FALSE ELSE swr.data # "undefined"

\* the component after its first render and its first effects
FreshPage(i, swr, pads) ==
    [mounted |-> TRUE, editor |-> FALSE, id |-> i, swr |-> swr,
     current |-> NoPad, cleanup |-> NoPad, pads |-> pads]

PageInit == page = FreshPage("a", NoSwr, <<>>)

cleanupYjsPadNoDispose(s) ==
    IF s.cleanup = NoPad THEN s
    ELSE [s EXCEPT !.current = NoPad, !.cleanup = NoPad]

\* the effect's cleanup: pad.dispose(); yjspad.current = null
cleanupYjsPad(s) ==
    IF s.cleanup = NoPad THEN s
    ELSE [s EXCEPT !.pads[s.cleanup] = "disposed",
                   !.current = NoPad,
                   !.cleanup = NoPad]

\* the effect's body: two early returns, then new YjsPad and the cleanup
effectYjsPad(s) ==
    IF ~s.editor \/ s.id = NoRouteId \/ ~documentExists(s.swr) THEN s
    ELSE IF s.current # NoPad THEN s
    ELSE LET pad == Len(s.pads) + 1
         IN [s EXCEPT !.pads = Append(@, "live"),
                      !.current = pad,
                      !.cleanup = pad]

\* the effect's dependencies, toast apart
effectDeps(s) == <<s.id, s.editor, documentExists(s.swr), s.swr.data>>

\* a commit after a render in which a dependency of the effect changed
commitEffects(s) == effectYjsPad(cleanupYjsPad(s))

\* a render with the new state s: the effect runs again if a dependency changed
Rerender(s, toast) ==
    LET next == IF toast \/ effectDeps(s) # effectDeps(page)
                THEN commitEffects(s) ELSE s
    IN /\ page.mounted
       /\ Len(next.pads) <= MaxPads
       /\ page' = next
       /\ UNCHANGED <<padVars, userVars>>

\* Monaco's onMount: setEditor(editor)
EditorMounted ==
    /\ ~page.editor
    /\ Rerender([page EXCEPT !.editor = TRUE], FALSE)

\* the router gives another id; SWR has the new key cached or not
RouteChange ==
    \E i \in RouteIds \ {page.id}, swr \in SwrCached :
        /\ i \notin WellFormedIds => swr = NoSwr
        /\ Rerender([page EXCEPT !.id = i, !.swr = swr], FALSE)

\* the fetcher of SWR settles: with the document, or with an error
SwrSettles ==
    \E swr \in SwrStates \ {page.swr} :
        /\ page.id \in WellFormedIds
        /\ \/ swr.error = "undefined" /\ swr.data # "undefined"
           \/ swr.error # "undefined" /\ swr.data = page.swr.data
        /\ Rerender([page EXCEPT !.swr = swr], FALSE)

\* useToast() returns another function
ToastChange == Rerender(page, TRUE)

\* the page unmounts: React runs the cleanup
Unmount ==
    /\ page.mounted
    /\ page' = [cleanupYjsPad(page) EXCEPT !.mounted = FALSE]
    /\ UNCHANGED <<padVars, userVars>>

\* the page is mounted again: new state, a new ref, and the first effects
Mount ==
    /\ ~page.mounted
    /\ \E i \in RouteIds \ {NoRouteId}, swr \in SwrCached :
           /\ i \notin WellFormedIds => swr = NoSwr
           /\ page' = effectYjsPad(FreshPage(i, swr, page.pads))
    /\ UNCHANGED <<padVars, userVars>>

NextPage ==
    \/ EditorMounted
    \/ RouteChange
    \/ SwrSettles
    \/ ToastChange
    \/ Unmount
    \/ Mount

(***************************************************************************)
(* Spec: the actions of the two sessions.                                  *)
(***************************************************************************)
NoFetch == [content |-> "", language |-> ""]

\* no public method was called yet
NoCall == [pad |-> 0, method |-> "none", arg |-> "", ret |-> "void", disposed |-> FALSE]

\* the record of a call of a public method of pad p
Call(p, method, arg, ret) ==
    [pad |-> p, method |-> method, arg |-> arg, ret |-> ret,
     disposed |-> life[p] = "disposed"]

PadInit ==
    /\ doc = [p \in Pads |-> EmptyDoc]
    /\ room = {}
    /\ outbox = [p \in Pads |-> {}]
    /\ wsconnected = [p \in Pads |-> FALSE]
    /\ status = [p \in Pads |-> "disconnected"]
    /\ roomOpt \in [Pads -> {"none", "false", "true"}]
    /\ initialContentHandled = [p \in Pads |-> FALSE]
    /\ pc = [p \in Pads |-> "idle"]
    /\ waitTime = [p \in Pads |-> 0]
    /\ fetched = [p \in Pads |-> NoFetch]
    /\ reentered = [p \in Pads |-> FALSE]
    /\ fetchCalls = [p \in Pads |-> 0]
    /\ seedInserts = [p \in Pads |-> 0]
    /\ raced = [p \in Pads |-> FALSE]
    /\ editorLang = [p \in Pads |-> DefaultLanguage]
    /\ langNote = [p \in Pads |-> <<>>]
    /\ localState = [p \in Pads |-> "empty"]
    /\ life = [p \in Pads |-> "live"]
    /\ teardown = [p \in Pads |-> <<>>]
    /\ edits = 0
    /\ langSets = 0
    /\ notified = [p \in Pads |-> FALSE]
    /\ called = NoCall

\* provider "status" event, connected: the socket opened and the sync started
StatusConnected(p, D) ==
    /\ life[p] = "live"
    /\ ~wsconnected[p]
    /\ \E d \in D : Commit(p, onStatusConnected(PadState(p), p, d), TRUE)
    /\ UNCHANGED <<userVars, pageVars, called, roomOpt, raced, localState, life, teardown, edits, langSets>>

StatusDisconnectedDesync(p) ==
    /\ life[p] = "live"
    /\ wsconnected[p]
    /\ wsconnected' = [wsconnected EXCEPT ![p] = FALSE]
    /\ status' = [status EXCEPT ![p] = "desynchronized"]
    /\ notified' = [notified EXCEPT ![p] = FALSE]
    /\ UNCHANGED <<userVars, pageVars, called, doc, room, outbox, roomOpt, initialContentHandled, pc, waitTime,
                   fetched, reentered, fetchCalls, seedInserts, raced, editorLang, langNote,
                   localState, life, teardown, edits, langSets>>

\* provider "status" event, disconnected: the socket dropped
StatusDisconnected(p) ==
    /\ life[p] = "live"
    /\ wsconnected[p]
    /\ wsconnected' = [wsconnected EXCEPT ![p] = FALSE]
    /\ status' = [status EXCEPT ![p] = "disconnected"]
    /\ notified' = [notified EXCEPT ![p] = FALSE]
    /\ UNCHANGED <<userVars, pageVars, called, doc, room, outbox, roomOpt, initialContentHandled, pc, waitTime,
                   fetched, reentered, fetchCalls, seedInserts, raced, editorLang, langNote,
                   localState, life, teardown, edits, langSets>>

\* provider "connection-error" event
ConnectionError(p) ==
    /\ life[p] = "live"
    /\ status' = [status EXCEPT ![p] = "desynchronized"]
    /\ notified' = [notified EXCEPT ![p] = FALSE]
    /\ UNCHANGED <<userVars, pageVars, called, doc, room, outbox, wsconnected, roomOpt, initialContentHandled, pc,
                   waitTime, fetched, reentered, fetchCalls, seedInserts, raced, editorLang,
                   langNote, localState, life, teardown, edits, langSets>>

\* the promise of checkRoomExists() settles; a rejection counts as false
CheckRoomSettled(p, D) ==
    /\ pc[p] = "check"
    /\ life[p] # "unloaded"
    /\ \E ok \in BOOLEAN, d \in D :
           Commit(p, afterRoomCheck(PadState(p), p, ok /\ roomOpt[p] = "true", d),
                  wsconnected[p])
    /\ UNCHANGED <<userVars, pageVars, called, roomOpt, raced, localState, life, teardown, edits, langSets>>

\* a timer of waitForSync fires
PollTick(p) ==
    /\ pc[p] = "poll"
    /\ life[p] # "unloaded"
    /\ Commit(p, waitCheck(PadState(p), p), wsconnected[p])
    /\ UNCHANGED <<userVars, pageVars, called, roomOpt, raced, localState, life, teardown, edits, langSets>>

\* the promise of onInitialContentNeeded() settles
FetchSettled(p) ==
    /\ pc[p] = "fetch"
    /\ life[p] # "unloaded"
    /\ \E ok \in BOOLEAN : Commit(p, afterFetch(PadState(p), p, ok), wsconnected[p])
    /\ UNCHANGED <<userVars, pageVars, called, roomOpt, raced, localState, life, teardown, edits, langSets>>

\* the provider applies an update of the room to the local document
Deliver(p) ==
    /\ life[p] = "live"
    /\ wsconnected[p]
    /\ \E u \in room :
        /\ ItemId(u.item) \notin Received(doc[p])
        /\ LET s == PadState(p)
               a == [s EXCEPT !.doc = applyUpdate(s.doc, u)]
               b == IF a.doc.language # s.doc.language
                       \/ getLanguage(a.doc) # getLanguage(s.doc)
                    THEN languageObserver(a) ELSE a
           IN /\ Commit(p, b, TRUE)
              /\ raced' = [raced EXCEPT ![p] =
                              @ \/ (pc[p] = "fetch" /\ getText(a.doc) # getText(s.doc))]
    /\ UNCHANGED <<userVars, pageVars, called, roomOpt, localState, life, teardown, edits, langSets>>

\* the user types into the editor; the Monaco binding inserts into content
UserType(p, toks, max) ==
    /\ life[p] = "live"
    /\ edits < max
    /\ edits' = edits + 1
    /\ \E tok \in toks :
           Commit(p, insertContent(PadState(p), p, tok), wsconnected[p])
    /\ UNCHANGED <<userVars, pageVars, called, roomOpt, raced, localState, life, teardown, langSets>>

\* EditorPage.handleLanguageChange: the user picks a language
UserSetLanguage(p, max) ==
    /\ life[p] # "unloaded"
    /\ langSets < max
    /\ langSets' = langSets + 1
    /\ \E l \in Languages :
           LET s == [PadState(p) EXCEPT !.editorLang = l]
               a == IF life[p] = "live" THEN setLanguage(s, p, l) ELSE s
           IN /\ Commit(p, a, wsconnected[p])
              /\ called' = IF life[p] = "live"
                           THEN Call(p, "setLanguage", l, a.ret)
                           ELSE called
    /\ UNCHANGED <<userVars, pageVars, roomOpt, raced, localState, life, teardown, edits>>

\* EditorPage's effect on connection === "connected": yjspad.setInfo({name, hue})
SetInfo(p) ==
    /\ life[p] = "live"
    /\ status[p] = "connected"
    /\ localState[p] # "user"
    /\ localState' = [localState EXCEPT ![p] = "user"]
    /\ teardown' = [teardown EXCEPT ![p] = Append(@, "publish")]
    /\ notified' = [notified EXCEPT ![p] = FALSE]
    /\ called' = Call(p, "setInfo", "", "void")
    /\ UNCHANGED <<userVars, pageVars, doc, room, outbox, wsconnected, status, roomOpt,
                   initialContentHandled, pc, waitTime, fetched, reentered, fetchCalls,
                   seedInserts, raced, editorLang, langNote, life, edits, langSets>>

\* YjsPad.dispose(): binding.destroy(); provider.destroy() closes the socket;
\* doc.destroy() destroys the awareness, which clears its local state
disposeSteps == <<"close", "clear">>
unloadSteps == <<"clear", "close">>

Dispose(p) ==
    /\ life[p] = "live"
    /\ life' = [life EXCEPT ![p] = "disposed"]
    /\ wsconnected' = [wsconnected EXCEPT ![p] = FALSE]
    /\ outbox' = [outbox EXCEPT ![p] = {}]
    /\ localState' = [localState EXCEPT ![p] = "null"]
    /\ teardown' = [teardown EXCEPT ![p] = @ \o disposeSteps]
    /\ notified' = [notified EXCEPT ![p] = FALSE]
    /\ UNCHANGED <<userVars, pageVars, called, doc, room, status, roomOpt, initialContentHandled, pc, waitTime,
                   fetched, reentered, fetchCalls, seedInserts, raced, editorLang, langNote,
                   edits, langSets>>

\* the window's beforeunload listener: awareness.setLocalState(null); the
\* browser then closes the socket and the page is gone
Unload(p) ==
    /\ life[p] # "unloaded"
    /\ life' = [life EXCEPT ![p] = "unloaded"]
    /\ wsconnected' = [wsconnected EXCEPT ![p] = FALSE]
    /\ outbox' = [outbox EXCEPT ![p] = {}]
    /\ localState' = [localState EXCEPT ![p] = "null"]
    /\ teardown' = [teardown EXCEPT ![p] = @ \o unloadSteps]
    /\ notified' = [notified EXCEPT ![p] = FALSE]
    /\ UNCHANGED <<userVars, pageVars, called, doc, room, status, roomOpt, initialContentHandled, pc, waitTime,
                   fetched, reentered, fetchCalls, seedInserts, raced, editorLang, langNote,
                   edits, langSets>>

\* the public methods of YjsPad, as they run on a pad whose dispose() has
\* returned: the provider is destroyed (wsconnected is false) and the local
\* awareness state is null, so setLocalStateField sets nothing
PublicMethods == {"setLanguage", "setInfo", "getText", "getLanguage", "isConnected"}

callPublic(s, p, method, language) ==
    CASE method = "setLanguage" -> setLanguage(s, p, language)
      [] method = "setInfo" -> [s EXCEPT !.ret = "void"]
      [] method = "getText" -> [s EXCEPT !.ret = "text"]
      [] method = "getLanguage" -> [s EXCEPT !.ret = "text"]
      [] method = "isConnected" -> [s EXCEPT !.ret = IF s.wsconnected THEN "true"
                                                     ELSE "false"]

\* a caller that kept the pad calls one of its public methods after dispose()
UseAfterDispose(p) ==
    /\ life[p] = "disposed"
    /\ \E method \in PublicMethods, l \in Languages :
           LET a == callPublic(PadState(p), p, method, l)
           IN /\ Commit(p, a, wsconnected[p])
              /\ called' = Call(p, method, IF method = "setLanguage" THEN l ELSE "",
                                a.ret)
    /\ UNCHANGED <<userVars, pageVars, roomOpt, raced, localState, life, teardown, edits, langSets>>

\* Spec: two sessions reconcile the content of one document
Next ==
    \E p \in Pads :
        \/ StatusConnected(p, SeedData)
        \/ StatusDisconnected(p)
        \/ CheckRoomSettled(p, SeedData)
        \/ PollTick(p)
        \/ FetchSettled(p)
        \/ Deliver(p)
        \/ UserType(p, {"R"}, MaxEdits)

Init == PadInit /\ UsersIdle /\ PageInit

Spec == Init /\ [][Next]_vars

\* SpecPage: one editor page through mounts, dependency changes and unmounts
SpecPage == Init /\ [][NextPage]_vars

\* SpecLang: two sessions reconcile and set the language of one document
NextLang ==
    \E p \in Pads :
        \/ StatusConnected(p, LangData)
        \/ StatusDisconnected(p)
        \/ FetchSettled(p)
        \/ Deliver(p)
        \/ UserSetLanguage(p, MaxLangSets)

\* SpecSession: the whole life of one session, from construction to teardown
SessionPad == 1

NextSession ==
    \/ StatusConnected(SessionPad, FetchData)
    \/ StatusDisconnected(SessionPad)
    \/ ConnectionError(SessionPad)
    \/ CheckRoomSettled(SessionPad, FetchData)
    \/ PollTick(SessionPad)
    \/ FetchSettled(SessionPad)
    \/ UserType(SessionPad, {"R"}, MaxEdits)
    \/ UserSetLanguage(SessionPad, MaxLangSets)
    \/ SetInfo(SessionPad)
    \/ Dispose(SessionPad)
    \/ Unload(SessionPad)
    \/ UseAfterDispose(SessionPad)

InitSession == Init /\ \A p \in Pads \ {SessionPad} : roomOpt[p] = "none"

SpecSession == InitSession /\ [][NextSession]_vars

\* SpecUsers: the presence tracker of one session
InitUsers == Init /\ \A p \in Pads : roomOpt[p] = "none"

SpecUsers == InitUsers /\ [][NextUsers]_vars

\* SpecCRDT: two sessions, connected and done with the reconciliation of an
\* empty backend document, exchange concurrent insertions into content and
\* concurrent replacements of the language
InitCRDT ==
    /\ UsersIdle
    /\ PageInit
    /\ doc = [p \in Pads |-> EmptyDoc]
    /\ room = {}
    /\ outbox = [p \in Pads |-> {}]
    /\ wsconnected = [p \in Pads |-> TRUE]
    /\ status = [p \in Pads |-> "connected"]
    /\ roomOpt = [p \in Pads |-> "none"]
    /\ initialContentHandled = [p \in Pads |-> TRUE]
    /\ pc = [p \in Pads |-> "done"]
    /\ waitTime = [p \in Pads |-> 0]
    /\ fetched = [p \in Pads |-> NoFetch]
    /\ reentered = [p \in Pads |-> FALSE]
    /\ fetchCalls = [p \in Pads |-> 1]
    /\ seedInserts = [p \in Pads |-> 0]
    /\ raced = [p \in Pads |-> FALSE]
    /\ editorLang = [p \in Pads |-> DefaultLanguage]
    /\ langNote = [p \in Pads |-> <<>>]
    /\ localState = [p \in Pads |-> "empty"]
    /\ life = [p \in Pads |-> "live"]
    /\ teardown = [p \in Pads |-> <<>>]
    /\ edits = 0
    /\ langSets = 0
    /\ notified = [p \in Pads |-> FALSE]
    /\ called = NoCall

NextCRDT ==
    \E p \in Pads :
        \/ Deliver(p)
        \/ UserType(p, {TypedBy[p]}, MaxOps)
        \/ UserSetLanguage(p, MaxOps)

SpecCRDT == InitCRDT /\ [][NextCRDT]_vars

\* SpecWait: one session reconciles; a settled promise runs its continuation
\* and a timer that is due fires (the event loop runs every task it holds)
NextWait ==
    \/ StatusConnected(SessionPad, SeedData)
    \/ StatusDisconnected(SessionPad)
    \/ CheckRoomSettled(SessionPad, SeedData)
    \/ PollTick(SessionPad)
    \/ FetchSettled(SessionPad)
    \/ UserType(SessionPad, {"R"}, MaxEdits)

FairWait ==
    /\ WF_vars(CheckRoomSettled(SessionPad, SeedData))
    /\ WF_vars(PollTick(SessionPad))
    /\ WF_vars(FetchSettled(SessionPad))

SpecWait == InitSession /\ [][NextWait]_vars /\ FairWait

InitLang == Init /\ \A p \in Pads : roomOpt[p] = "none"

SpecLang == InitLang /\ [][NextLang]_vars

(***************************************************************************)
(* Claims about the reconciliation of the initial content (Spec).          *)
(***************************************************************************)
RECURSIVE CountTok(_, _)
CountTok(text, tok) ==
    IF text = <<>> THEN 0
    ELSE (IF Head(text) = tok THEN 1 ELSE 0) + CountTok(Tail(text), tok)

\* the pad's own snapshot insertion is part of its content
OwnSeedIn(p) ==
    \E i \in DOMAIN doc[p].content :
        /\ doc[p].content[i].client = p
        /\ doc[p].content[i].tok = SnapshotText

\* a remote pad's typed text is part of the pad's content
RemoteTypedIn(p) ==
    \E i \in DOMAIN doc[p].content :
        /\ doc[p].content[i].client # p
        /\ doc[p].content[i].tok \in TypedText

AllIds == UNION {Received(doc[p]) : p \in Pads}
Synced == \A p \in Pads : Received(doc[p]) = AllIds /\ doc[p].pending = {}

\* C1: when remote content arrives while the snapshot fetch of a pad is
\* pending, the pad never applies its snapshot: its content holds the remote
\* text and never its own snapshot as well, so a remote "R" and a fetched "B"
\* end as "R", never as "RB" or "BR".
C1_RaceSafety ==
    \A p \in Pads :
        raced[p] =>
            /\ seedInserts[p] = 0
            /\ ~OwnSeedIn(p)
            /\ getText(doc[p]) # <<>>
            /\ RemoteTypedIn(p) /\ Len(doc[p].content) = 1 => getText(doc[p]) = <<"R">>

C1_Witness ==
    \E p \in Pads :
        /\ raced[p]
        /\ pc[p] = "done"
        /\ fetched[p].content = SnapshotText
        /\ getText(doc[p]) = <<"R">>

\* C2: once every pad holds every update, the content holds the backend
\* snapshot text at most once.
C2_NoDuplicatedSeed ==
    Synced => \A p \in Pads : CountTok(getText(doc[p]), SnapshotText) <= 1

\* C3: a pad calls onInitialContentNeeded at most once and inserts the
\* snapshot at most once, and a call of handleInitialContent with the latch
\* set (a reconnection) changes nothing of the document or of the
\* reconciliation in progress.
C3_Idempotent ==
    [][\A p \in Pads :
          /\ fetchCalls'[p] <= 1
          /\ seedInserts'[p] <= 1
          /\ (initialContentHandled[p] /\ ~wsconnected[p] /\ wsconnected'[p]) =>
                /\ doc'[p] = doc[p]
                /\ pc'[p] = pc[p]
                /\ waitTime'[p] = waitTime[p]
                /\ fetched'[p] = fetched[p]
                /\ fetchCalls'[p] = fetchCalls[p]
                /\ seedInserts'[p] = seedInserts[p]]_vars

C3_Witness ==
    \E p \in Pads :
        /\ reentered[p]
        /\ pc[p] = "fetch"
        /\ fetchCalls[p] = 1
        /\ \E q \in Pads : reentered[q] /\ pc[q] = "done" /\ seedInserts[q] = 1

\* C4: the snapshot is inserted at most once per replica and only into an
\* empty content, which then is the snapshot text; a fetch that settles on a
\* content that is not empty leaves the content as it is.
C4_SeedOnlyIntoEmpty ==
    [][\A p \in Pads :
          /\ seedInserts'[p] # seedInserts[p] =>
                /\ seedInserts[p] = 0
                /\ getText(doc[p]) = <<>>
                /\ getText(doc'[p]) = <<SnapshotText>>
          /\ (pc[p] = "fetch" /\ pc'[p] # "fetch" /\ getText(doc[p]) # <<>>) =>
                /\ doc'[p].content = doc[p].content
                /\ seedInserts'[p] = seedInserts[p]]_vars

C4_Witness ==
    \E p, q \in Pads :
        /\ seedInserts[p] = 1
        /\ getText(doc[p]) = <<SnapshotText>>
        /\ seedInserts[q] = 0
        /\ raced[q]
        /\ pc[q] = "done"
        /\ fetched[q].content = SnapshotText
        /\ getText(doc[q]) = <<SnapshotText>>

\* C13: when the promise of onInitialContentNeeded() is rejected, the
\* reconciliation ends all the same: the content and the status are left as
\* they are, the latch stays set, and a finished reconciliation never starts
\* a fetch again.
C13_FetchFailureAbsorbed ==
    [][\A p \in Pads :
          /\ (pc[p] = "fetch"
                 /\ Commit(p, afterFetch(PadState(p), p, FALSE), wsconnected[p])) =>
                /\ doc'[p].content = doc[p].content
                /\ status' = status
                /\ pc'[p] = "done"
                /\ initialContentHandled'[p]
                /\ seedInserts'[p] = seedInserts[p]
          /\ pc[p] = "done" =>
                /\ pc'[p] = "done"
                /\ initialContentHandled'[p]
                /\ fetchCalls'[p] = fetchCalls[p]]_vars

\* the fetch of "B" failed on an empty content, and the pad reconnected later
C13_Witness ==
    \E p \in Pads :
        /\ pc[p] = "done"
        /\ fetched[p].content = SnapshotText
        /\ fetchCalls[p] = 1
        /\ seedInserts[p] = 0
        /\ getText(doc[p]) = <<>>
        /\ reentered[p]
        /\ wsconnected[p]

\* C20: when checkRoomExists() answers true, the reconciliation goes to the
\* polling wait or ends, and from there on it never calls the fetch and never
\* inserts into content: content changes by synchronisation and typing only,
\* and is still empty at the end if none came.
C20_RoomExistsNoSeed ==
    [][\A p \in Pads :
          /\ (pc[p] = "check"
                 /\ \E d \in SeedData :
                        Commit(p, afterRoomCheck(PadState(p), p, TRUE, d),
                               wsconnected[p])) =>
                /\ pc'[p] \in {"poll", "done"}
                /\ fetchCalls'[p] = 0
                /\ seedInserts'[p] = 0
                /\ doc'[p].content = doc[p].content
          /\ pc[p] = "poll" =>
                /\ pc'[p] \in {"poll", "done"}
                /\ fetchCalls'[p] = 0
                /\ seedInserts'[p] = 0
                /\ (pc'[p] = "done" \/ waitTime'[p] # waitTime[p]) =>
                       doc'[p].content = doc[p].content
          /\ pc[p] = "done" =>
                /\ fetchCalls'[p] = fetchCalls[p]
                /\ seedInserts'[p] = seedInserts[p]]_vars

\* the room was reported to exist, nothing came within the wait, and the
\* reconciliation ended on an empty content without a fetch
C20_Witness ==
    \E p \in Pads :
        /\ roomOpt[p] = "true"
        /\ pc[p] = "done"
        /\ fetchCalls[p] = 0
        /\ seedInserts[p] = 0
        /\ getText(doc[p]) = <<>>

C23_SeedIsSnapshot ==
    [][\A p \in Pads :
          (pc[p] = "fetch" /\ Commit(p, afterFetch(PadState(p), p, TRUE), wsconnected[p])) =>
              IF fetched[p].content # "" /\ getText(doc[p]) = <<>>
              THEN /\ getText(doc'[p]) = <<fetched[p].content>>
                   /\ Len(doc'[p].content) = Len(doc[p].content) + 1
                   /\ doc'[p].content[1].ror = NoId
                   /\ seedInserts'[p] = seedInserts[p] + 1
                   /\ wsconnected[p] => Cardinality(room' \ room) = 1
                   /\ pc'[p] = "done"
              ELSE doc'[p].content = doc[p].content]_vars

\* the pad fetched B, nothing came meanwhile, and its content is B
C23_Witness ==
    \E p \in Pads :
        /\ pc[p] = "done"
        /\ fetched[p].content = SnapshotText
        /\ seedInserts[p] = 1
        /\ ~raced[p]
        /\ doc[p].content = <<[client |-> p, clock |-> 0, tok |-> SnapshotText,
                                ror |-> NoId]>>

(***************************************************************************)
(* Claims about the end of the reconciliation (SpecWait).                  *)
(***************************************************************************)
\* the values waitTime takes while a timer of waitForSync is pending
WaitTimes == {k * PollInterval : k \in 1..(MaxWaitTime \div PollInterval)}

\* C21: a reconciliation that has started ends.  The wait for the room's
\* content ends at once when the content is not empty, ends at the first
\* timer that finds content, and ends at the timer that finds waitTime at
\* 2000 otherwise; each other timer adds 100 to waitTime.
C21_WaitTerminates ==
    /\ [][LET p == SessionPad
          IN /\ (pc[p] = "check" /\ getText(doc[p]) # <<>>
                    /\ \E d \in SeedData :
                           Commit(p, afterRoomCheck(PadState(p), p, TRUE, d),
                                  wsconnected[p])) => pc'[p] = "done"
             /\ pc[p] = "poll" => waitTime[p] \in WaitTimes
             /\ (pc[p] = "poll" /\ (pc'[p] # "poll" \/ waitTime'[p] # waitTime[p])) =>
                    IF getText(doc[p]) # <<>> \/ waitTime[p] >= MaxWaitTime
                    THEN pc'[p] = "done"
                    ELSE pc'[p] = "poll" /\ waitTime'[p] = waitTime[p] + PollInterval]_vars
    /\ (pc[SessionPad] \in {"check", "poll", "fetch"}) ~> (pc[SessionPad] = "done")

\* the last timer of a wait during which no content came is pending
C21_Witness ==
    /\ pc[SessionPad] = "poll"
    /\ waitTime[SessionPad] = MaxWaitTime
    /\ getText(doc[SessionPad]) = <<>>
    /\ roomOpt[SessionPad] = "true"

(***************************************************************************)
(* Claims about the language (SpecLang).                                   *)
(***************************************************************************)
\* C15: setLanguage(L) on a pad whose socket is up returns true and leaves
\* the pad's language text equal to L alone, whatever it was; on a pad whose
\* socket is down it returns false and leaves the replica and the peer set
\* as they are.
C15_SetLanguage ==
    [][(langSets' # langSets /\ called'.pad \in Pads /\ called'.method = "setLanguage") =>
          LET p == called'.pad
          IN IF wsconnected[p]
             THEN /\ called'.ret = "true"
                  /\ getLanguage(doc'[p]) = <<called'.arg>>
             ELSE /\ called'.ret = "false"
                  /\ doc'[p] = doc[p]
                  /\ users' = users]_vars

\* a pad replaced a language text that was not empty
C15_Witness ==
    /\ called.method = "setLanguage"
    /\ called.ret = "true"
    /\ called.arg = "rust"
    /\ \E p \in Pads :
          /\ called.pad = p
          /\ getLanguage(doc[p]) = <<"rust">>
          /\ \E i \in DOMAIN doc[p].language :
                /\ doc[p].language[i].tok = "go"
                /\ ItemId(doc[p].language[i]) \in doc[p].deleted

\* C31: a step that calls onChangeLanguage passes the language text as it
\* is after the step, which is not empty; a step that changes the language
\* text to empty calls nothing and leaves the last notified value.
C31_NeverNotifiedEmpty ==
    [][\A p \in Pads :
          /\ notified'[p] =>
                /\ langNote'[p] # <<>>
                /\ langNote'[p] = getLanguage(doc'[p])
          /\ (getLanguage(doc'[p]) # getLanguage(doc[p])
                 /\ getLanguage(doc'[p]) = <<>>) =>
                /\ ~notified'[p]
                /\ langNote'[p] = langNote[p]]_vars

\* a pad that was notified of go received the delete set of a remote
\* replacement whose insertion still waits for its predecessor: its
\* language text is empty and the page was not told
C31_Witness ==
    \E p \in Pads :
        /\ langNote[p] = <<"go">>
        /\ ~notified[p]
        /\ doc[p].language # <<>>
        /\ getLanguage(doc[p]) = <<>>
        /\ doc[p].pending # {}

\* the notified text is one of languages.json
KnownLanguage(note) == Len(note) = 1 /\ note[1] \in Languages

\* C33: a step that calls onChangeLanguage with a known language leaves the
\* page showing that language; a step that calls it with a text that is not
\* a known language leaves the displayed language as it was.
C33_KnownLanguagesOnly ==
    [][\A p \in Pads :
          notified'[p] =>
              IF KnownLanguage(langNote'[p])
              THEN editorLang'[p] = langNote'[p][1]
              ELSE editorLang'[p] = editorLang[p]]_vars

\* two concurrent language writes met on a pad: the page was notified of
\* a text of two languages and still shows one known language
C33_Witness ==
    \E p \in Pads :
        /\ notified[p]
        /\ Len(langNote[p]) = 2
        /\ getLanguage(doc[p]) = langNote[p]
        /\ editorLang[p] \in Languages

(***************************************************************************)
(* Claims about the presence tracker (SpecUsers).                          *)
(***************************************************************************)
\* the remote connections that publish a user record
RemoteWithUser == {c \in DOMAIN states \ {LocalClientId} : states[c].user # NoUser}

MaxOf(S) == CHOOSE m \in S : \A x \in S : x <= m

\* name and hue of every connection, the other fields left out
IdentityView(sts) == [c \in DOMAIN sts |-> sts[c].user]

\* C5: the published peer set holds at most one entry per (name, hue) pair,
\* and the entry of a pair is keyed by the largest remote connection id
\* that publishes the pair, whatever the order of enumeration.
C5_PresenceDedup ==
    /\ \A k1, k2 \in DOMAIN users : users[k1] = users[k2] => k1 = k2
    /\ \A k \in DOMAIN users :
          /\ k \in RemoteWithUser
          /\ users[k] = userInfoOf(states[k])
          /\ k = MaxOf({c \in RemoteWithUser : userInfoOf(states[c]) = users[k]})

\* the example of the specification, enumerated with the larger id first
C5_Witness ==
    /\ 5 \in DOMAIN states /\ 7 \in DOMAIN states /\ 9 \in DOMAIN states
    /\ states[5].user = [name |-> Amy, hue |-> 10]
    /\ states[7].user = [name |-> Amy, hue |-> 10]
    /\ states[9].user = [name |-> Bob, hue |-> 200]
    /\ \E i, j \in DOMAIN order : i < j /\ order[i] = 7 /\ order[j] = 5
    /\ DOMAIN users = {7, 9}
    /\ users[7] = [name |-> Amy, hue |-> 10]
    /\ users[9] = [name |-> Bob, hue |-> 200]

\* C6: an update on states that have the same connections with the same
\* user records as before, and differ in other fields only, does not call
\* onChangeUsers and leaves this.users as it is.
C6_NoSpuriousRepublish ==
    [][(states' # states /\ IdentityView(states') = IdentityView(states)) =>
          (~published' /\ users' = users)]_vars

C6_Witness ==
    /\ ~published
    /\ 5 \in DOMAIN states
    /\ DOMAIN users = {5}
    /\ states[5].cursor = 1
    /\ users[5] = [name |-> Amy, hue |-> 10]

\* C7: the published peer set never has an entry keyed by the local
\* connection id.
C7_LocalExclusion == LocalClientId \notin DOMAIN users

C7_Witness ==
    /\ LocalClientId \in DOMAIN states
    /\ 5 \in DOMAIN states
    /\ states[LocalClientId].user = [name |-> Amy, hue |-> 10]
    /\ states[5].user = [name |-> Amy, hue |-> 10]
    /\ DOMAIN users = {5}

\* the visible peer list: the (name, hue) entries of a peer set
Visible(us) == {us[k] : k \in DOMAIN us}

\* C16: an update after which the peer set shows the same (name, hue)
\* entries as before does not call onChangeUsers, also when an entry is
\* now keyed by another connection id.
C16_PublishOnlyVisibleChange ==
    [][(states' # states /\ Visible(newUsersOf(states', order')) = Visible(users)) =>
          ~published']_vars

\* C17: a remote connection that publishes the name and hue of the local
\* session is shown in the published peer set.
C17_ExclusionByIdOnly ==
    \A c \in RemoteWithUser :
        SameAsLocal(states, states[c]) =>
            \E k \in DOMAIN users : users[k] = userInfoOf(states[c])

\* the local session and two remote connections publish Amy/10, and the
\* peer set shows Amy/10 under the larger remote id
C17_Witness ==
    /\ LocalClientId \in DOMAIN states
    /\ states[LocalClientId].user = [name |-> Amy, hue |-> 10]
    /\ 5 \in RemoteWithUser /\ 7 \in RemoteWithUser
    /\ SameAsLocal(states, states[5])
    /\ SameAsLocal(states, states[7])
    /\ DOMAIN users = {7}
    /\ users[7] = [name |-> Amy, hue |-> 10]

\* the remote connections of sts that publish a user record
WithUser(sts) == {c \in DOMAIN sts \ {LocalClientId} : sts[c].user # NoUser}

\* C25: after every update a connection has an entry only if it is in the
\* states with a user record; the update that follows the clearing of a
\* connection's state or its drop removes its entry, and a person that a
\* remaining connection still publishes stays listed under a remaining id;
\* a connection that starts to publish a user record has its person listed.
C25_PeerLifecycle ==
    [][\A c \in RemoteClientIds :
          /\ c \in DOMAIN users' => c \in WithUser(states')
          /\ (c \in WithUser(states) /\ c \notin WithUser(states')) =>
                /\ c \notin DOMAIN users'
                /\ \A d \in WithUser(states') :
                      userInfoOf(states'[d]) = userInfoOf(states[c]) =>
                          \E k \in DOMAIN users' \cap WithUser(states') :
                              /\ users'[k] = userInfoOf(states[c])
                              /\ userInfoOf(states'[k]) = userInfoOf(states[c])
          /\ (c \notin WithUser(states) /\ c \in WithUser(states')) =>
                \E k \in DOMAIN users' : users'[k] = userInfoOf(states'[c])]_vars

\* the last listed connection cleared its user record or dropped: the
\* update published an empty peer set, while connection 5 is still in the
\* states without a user record
C25_Witness ==
    /\ users = <<>>
    /\ published
    /\ DOMAIN states = {LocalClientId, 5}
    /\ states[5].user = NoUser

\* C26 as stated: a state that is absent, has no user record, or has a
\* user record without a name or without a hue has no entry in the
\* published peer set.
C26_MalformedNoEntry ==
    \A k \in DOMAIN users :
        /\ k \in DOMAIN states
        /\ states[k].user # NoUser
        /\ states[k].user.name # NoName
        /\ states[k].user.hue # NoHue

\* C26 as amended: a state that is absent or has no user record has no
\* entry in the published peer set; the person of a user record is listed,
\* a missing name as Anonymous and a missing hue as 0.
C26_NoUserNoEntry ==
    /\ \A k \in DOMAIN users : k \in DOMAIN states /\ states[k].user # NoUser
    /\ \A c \in WithUser(states) :
          \E k \in DOMAIN users :
              /\ users[k].name = IF states[c].user.name = NoName
                                 THEN Anonymous ELSE states[c].user.name
              /\ users[k].hue = IF states[c].user.hue = NoHue
                                THEN 0 ELSE states[c].user.hue

\* connection 5 has no user record and connection 7 a user record without
\* name and hue: only 7 is listed, as Anonymous with hue 0
C26_Witness ==
    /\ DOMAIN states = {LocalClientId, 5, 7}
    /\ states[5].user = NoUser
    /\ states[7].user = [name |-> NoName, hue |-> NoHue]
    /\ DOMAIN users = {7}
    /\ users[7] = [name |-> Anonymous, hue |-> 0]

\* C30: after every update the stored peer set is the deduplicated peer
\* set of the current states: the same connection ids with the same name
\* and hue.
C30_UsersFollowStates ==
    LET newUsers == newUsersOf(states, order)
    IN /\ DOMAIN users = DOMAIN newUsers
       /\ \A k \in DOMAIN users :
             users[k].name = newUsers[k].name /\ users[k].hue = newUsers[k].hue

\* connection 5 publishes Bob with hue 200, and the peer set that was just
\* published holds exactly that entry
C30_Witness ==
    /\ DOMAIN states = {LocalClientId, 5}
    /\ states[5].user = [name |-> Bob, hue |-> 200]
    /\ states[5].cursor = 1
    /\ DOMAIN users = {5}
    /\ users[5] = [name |-> Bob, hue |-> 200]
    /\ published

(***************************************************************************)
(* Claims about the editor page (SpecPage).                                *)
(***************************************************************************)
LivePads == {n \in DOMAIN page.pads : page.pads[n] = "live"}

\* C29: at most one YjsPad of the page is not disposed; it is the one in
\* yjspad.current, with its cleanup registered, on a mounted page; and when
\* a YjsPad is created, every YjsPad created before it is disposed.
C29_OneLivePad ==
    /\ [](/\ Cardinality(LivePads) <= 1
          /\ \A n \in LivePads :
                page.mounted /\ page.current = n /\ page.cleanup = n)
    /\ [][Len(page'.pads) > Len(page.pads) =>
             /\ Len(page'.pads) = Len(page.pads) + 1
             /\ \A n \in DOMAIN page.pads : page'.pads[n] = "disposed"]_vars

\* the page replaced its pad twice and was then unmounted
C29_Witness ==
    /\ ~page.mounted
    /\ page.pads = <<"disposed", "disposed", "disposed">>
    /\ page.current = NoPad

\* C32 as stated: a YjsPad is constructed only with a well-formed id whose
\* existence check has answered, and has not failed.
C32_OnlyAfterCheckSucceeded ==
    [][Len(page'.pads) > Len(page.pads) =>
          /\ page'.id \in WellFormedIds
          /\ page'.swr.data # "undefined"
          /\ page'.swr.error = "undefined"]_vars

\* C32 as amended: a YjsPad is constructed, and is kept, only on a page with
\* a well-formed id that holds document data of the backend and whose last
\* check did not end in 404.
C32_OnlyWithDocumentData ==
    /\ [](LivePads # {} =>
             /\ page.editor
             /\ page.id \in WellFormedIds
             /\ page.swr.data # "undefined"
             /\ page.swr.error # "404")
    /\ [][Len(page'.pads) > Len(page.pads) =>
             /\ page'.id \in WellFormedIds
             /\ page'.swr.data # "undefined"
             /\ page'.swr.error # "404"]_vars

\* the page's only pad is in use although the last check failed with 500:
\* the data of an earlier answer is still held
C32_Witness ==
    /\ page.pads = <<"live">>
    /\ page.swr = [data |-> "data1", error |-> "500"]
    /\ page.id \in WellFormedIds

(***************************************************************************)
(* Claims about the status and the teardown of a session (SpecSession).    *)
(***************************************************************************)
\* C8: once the page was told desynchronized, no later event of the
\* transport makes it show connected or disconnected again.
C8_StatusTerminal ==
    [][\A p \in Pads :
          status[p] = "desynchronized" => status'[p] = "desynchronized"]_vars

\* the local presence is published when step i of the log runs
PublishedAt(log, i) ==
    \E j \in 1..(i - 1) :
        /\ log[j] = "publish"
        /\ \A k \in (j + 1)..(i - 1) : log[k] # "clear"

Connects(p) == ~wsconnected[p] /\ wsconnected'[p]

\* C18: a transition into connected invokes handleInitialContent exactly
\* once (the first sets the latch and is no re-entry, every later one is a
\* re-entry), no other step invokes it, and before the first transition into
\* connected neither the room check nor the fetch has started.
C18_GatedByConnected ==
    [][\A p \in Pads :
          /\ Connects(p) =>
                /\ initialContentHandled'[p]
                /\ reentered'[p] = initialContentHandled[p]
          /\ ~Connects(p) =>
                /\ initialContentHandled'[p] = initialContentHandled[p]
                /\ reentered'[p] = reentered[p]
                /\ pc[p] = "idle" => (pc'[p] = "idle" /\ fetchCalls'[p] = 0)]_vars

\* the pad came back while its room check was pending, after other events
C18_Witness ==
    \E p \in Pads :
        /\ reentered[p]
        /\ wsconnected[p]
        /\ status[p] = "connected"
        /\ pc[p] = "check"
        /\ fetchCalls[p] = 0
        /\ edits = 1
        /\ called.ret = "false"

C24_LanguageOnlyWhileEmpty ==
    [][LET p == SessionPad
       IN (pc[p] # "done" /\ (pc'[p] # pc[p] \/ waitTime'[p] # waitTime[p])) =>
            IF getLanguage(doc[p]) # <<>> \/ pc'[p] # "done"
            THEN doc'[p].language = doc[p].language
            ELSE IF /\ pc[p] = "fetch"
                    /\ fetched[p].language # ""
                    /\ Commit(p, afterFetch(PadState(p), p, TRUE), wsconnected[p])
                 THEN getLanguage(doc'[p]) = <<fetched[p].language>>
                 ELSE IF editorLang[p] # DefaultLanguage
                      THEN getLanguage(doc'[p]) = <<editorLang[p]>>
                      ELSE getLanguage(doc'[p]) = <<>>]_vars

\* the user picked rust while the fetch was in flight and the socket down;
\* the fetch resolved with go, which the reconciliation preferred
C24_Witness ==
    LET p == SessionPad
    IN /\ pc[p] = "done"
       /\ fetchCalls[p] = 1
       /\ fetched[p].language = "go"
       /\ editorLang[p] = "rust"
       /\ called.method = "setLanguage" /\ called.ret = "false"
       /\ getLanguage(doc[p]) = <<"go">>

\* the step is a drop of the socket of pad p, the pad staying in use
Drops(p) == wsconnected[p] /\ ~wsconnected'[p] /\ life'[p] = life[p]

C28_SilentAfterDispose ==
    [][\A p \in Pads :
          life[p] = "disposed" =>
              /\ ~notified'[p]
              /\ langNote'[p] = langNote[p]
              /\ status'[p] = status[p]
              /\ users' = users /\ ~published'
              /\ localState'[p] = localState[p]
              /\ teardown'[p] = teardown[p]]_vars

\* C11: once dispose() has returned, a promise of the reconciliation that
\* settles (the room check, the polling wait or the snapshot fetch) inserts
\* nothing: neither content nor language of the replica changes any more.
C11_DiscardAfterDisposal ==
    [][\A p \in Pads :
          (life[p] = "disposed" /\ life'[p] = "disposed") => doc'[p] = doc[p]]_vars

\* C12: every call of a public method made after dispose() ends with the
\* use-after-dispose error.
C12_UseAfterDispose == called.disposed => called.ret = "use-after-dispose"

(***************************************************************************)
(* Claims about the replicas (SpecCRDT).                                   *)
(***************************************************************************)
\* C14: after two pads set the language concurrently and exchanged their
\* updates, the language text of each is one language, never two of them
\* one after the other.
C14_LastTransactionWins ==
    Synced => \A p \in Pads : Len(getLanguage(doc[p])) <= 1

\* C9: two replicas that have received the same updates, in whatever order,
\* return the same content text and the same language text.
C9_Convergence ==
    \A p, q \in Pads :
        Received(doc[p]) = Received(doc[q]) =>
            /\ getText(doc[p]) = getText(doc[q])
            /\ getLanguage(doc[p]) = getLanguage(doc[q])

\* both pads inserted into content and replaced the language concurrently,
\* and each received the other's updates after its own
C9_Witness ==
    /\ Synced
    /\ \A p \in Pads :
          /\ \E i \in DOMAIN doc[p].content :
                doc[p].content[i].client = p /\ doc[p].content[i].ror = NoId
          /\ \E i \in DOMAIN doc[p].language :
                doc[p].language[i].client = p /\ doc[p].language[i].ror = NoId
    /\ Len(getText(doc[1])) = 2
    /\ Len(getLanguage(doc[1])) = 2

====
